---- MODULE Spec2Model ----
(***************************************************************************)
(* Model of the gin-contrib/cors middleware: configuration validation      *)
(* (cors.go), construction of the matcher and the two precomputed header   *)
(* sets, and the per-request handler applyCors (config.go, kept in         *)
(* src/cors_test.go lines 634-810).                                        *)
(*                                                                         *)
(* Go strings are sequences of one-character strings, so that trimming,    *)
(* case folding, prefix tests and joins are computed and not assumed.      *)
(* A Go slice is a record [nil, elems]: the nil slice and the empty slice  *)
(* are different values with the same length.                              *)
(***************************************************************************)
EXTENDS Integers, Sequences, FiniteSets, TLC

\* ------------------------------------------------------------------ bounds

\* Requests served by one handler before the exploration stops.
MaxRequests == 2

\* ------------------------------------------------------------------ strings

LowerAlpha ==
  << "a","b","c","d","e","f","g","h","i","j","k","l","m",
     "n","o","p","q","r","s","t","u","v","w","x","y","z" >>

UpperAlpha ==
  << "A","B","C","D","E","F","G","H","I","J","K","L","M",
     "N","O","P","Q","R","S","T","U","V","W","X","Y","Z" >>

Digits == << "0","1","2","3","4","5","6","7","8","9" >>

IsLower(c) == \E i \in 1..26 : LowerAlpha[i] = c

IsUpper(c) == \E i \in 1..26 : UpperAlpha[i] = c

ToLowerChar(c) ==
  IF IsUpper(c) THEN LowerAlpha[CHOOSE i \in 1..26 : UpperAlpha[i] = c] ELSE c

ToUpperChar(c) ==
  IF IsLower(c) THEN UpperAlpha[CHOOSE i \in 1..26 : LowerAlpha[i] = c] ELSE c

\* unicode.IsSpace on the ASCII range
IsSpace(c) == c \in {" ", "\t", "\n", "\r"}

RECURSIVE TrimLeft(_)
TrimLeft(s) ==
  IF s = <<>> THEN <<>>
  ELSE IF IsSpace(Head(s)) THEN TrimLeft(Tail(s)) ELSE s

RECURSIVE TrimRight(_)
TrimRight(s) ==
  IF s = <<>> THEN <<>>
  ELSE IF IsSpace(s[Len(s)]) THEN TrimRight(SubSeq(s, 1, Len(s) - 1)) ELSE s

\* strings.TrimSpace
TrimSpace(s) == TrimRight(TrimLeft(s))

\* strings.HasPrefix
HasPrefix(s, prefix) ==
  /\ Len(s) >= Len(prefix)
  /\ SubSeq(s, 1, Len(prefix)) = prefix

\* strings.EqualFold on ASCII
EqualFold(s, t) ==
  /\ Len(s) = Len(t)
  /\ \A i \in 1..Len(s) : ToLowerChar(s[i]) = ToLowerChar(t[i])

\* net/textproto: the bytes allowed in a header field name (a token). The
\* backquote, also a token byte, cannot be written in a TLA+ string and
\* occurs in no string of the model.
validHeaderFieldByte(c) ==
  \/ IsLower(c)
  \/ IsUpper(c)
  \/ \E i \in 1..10 : Digits[i] = c
  \/ c \in {"!", "#", "$", "%", "&", "'", "*", "+", "-", ".", "^", "_", "|", "~"}

\* textproto.CanonicalMIMEHeaderKey: a value holding a byte that is not a
\* token byte is returned unchanged; otherwise the first letter and every
\* letter after a hyphen is upper-cased and every other letter lower-cased.
CanonicalMIMEHeaderKey(s) ==
  IF \E i \in 1..Len(s) : ~validHeaderFieldByte(s[i]) THEN s
  ELSE [i \in 1..Len(s) |->
          IF i = 1 \/ s[i - 1] = "-" THEN ToUpperChar(s[i]) ELSE ToLowerChar(s[i])]

\* strings.Join
RECURSIVE Join(_, _)
Join(elems, sep) ==
  IF elems = <<>> THEN <<>>
  ELSE IF Len(elems) = 1 THEN elems[1]
  ELSE elems[1] \o sep \o Join(Tail(elems), sep)

\* strconv.FormatInt(n, 10) for n >= 0
RECURSIVE FormatInt(_)
FormatInt(n) ==
  IF n < 10 THEN << Digits[n + 1] >>
  ELSE FormatInt(n \div 10) \o << Digits[(n % 10) + 1] >>

\* ------------------------------------------------------------------ slices

NilSlice == [nil |-> TRUE, elems |-> <<>>]

Slice(elems) == [nil |-> FALSE, elems |-> elems]

\* len(values)
SliceLen(values) == Len(values.elems)

\* normalize applying the canonical casing before it trims
RECURSIVE normalizeLoop_CanonicalFirst(_, _)
normalizeLoop_CanonicalFirst(values, normalized) ==
  IF values = <<>> THEN normalized
  ELSE LET value == TrimSpace(CanonicalMIMEHeaderKey(Head(values)))
       IN IF \E i \in 1..Len(normalized) : normalized[i] = value
          THEN normalizeLoop_CanonicalFirst(Tail(values), normalized)
          ELSE normalizeLoop_CanonicalFirst(Tail(values), Append(normalized, value))

\* config.go normalize: trim, canonical casing, de-duplication in
\* first-seen order.
RECURSIVE normalizeLoop(_, _)
normalizeLoop(values, normalized) ==
  IF values = <<>> THEN normalized
  ELSE LET value == CanonicalMIMEHeaderKey(TrimSpace(Head(values)))
       IN IF \E i \in 1..Len(normalized) : normalized[i] = value
          THEN normalizeLoop(Tail(values), normalized)
          ELSE normalizeLoop(Tail(values), Append(normalized, value))

normalize(values) ==
  IF values.nil THEN NilSlice ELSE Slice(normalizeLoop(values.elems, <<>>))

\* ------------------------------------------------------------------ http.Header

\* The header names the middleware emits.
HeaderKeys ==
  { "Access-Control-Allow-Origin", "Access-Control-Allow-Credentials",
    "Access-Control-Allow-Methods", "Access-Control-Allow-Headers",
    "Access-Control-Expose-Headers", "Access-Control-Max-Age", "Vary" }

\* make(http.Header): every name maps to its list of values, <<>> when the
\* name is absent.
MakeHeader == [k \in HeaderKeys |-> <<>>]

\* http.Header.Set
HeaderSet(h, key, value) == [h EXCEPT ![key] = << value >>]

\* the names present in a header map
HeaderNames(h) == { k \in HeaderKeys : h[k] # <<>> }

\* for key, value := range src { dst[key] = value }
CopyHeaders(dst, src) ==
  [k \in HeaderKeys |-> IF src[k] # <<>> THEN src[k] ELSE dst[k]]

StrTrue == << "t","r","u","e" >>

StrStar == << "*" >>

StrOrigin == << "O","r","i","g","i","n" >>

CommaSpace == << ",", " " >>

\* ------------------------------------------------------------------ Config

\* time.Second, with durations counted in milliseconds
Second == 1000

\* time.Hour
Hour == 3600 * Second

SchemeHTTP == << "h","t","t","p",":","/","/" >>

SchemeHTTPS == << "h","t","t","p","s",":","/","/" >>

\* func(origin string) bool, or nil: a predicate is the set of origins it
\* accepts.
NilFunc == [nil |-> TRUE, accepts |-> {}]

Func(accepts) == [nil |-> FALSE, accepts |-> accepts]

\* Config.Validate: the error it returns, NoError for nil
NoError == "nil"

ErrAllAllowed ==
  "conflict settings: all origins are allowed. AllowOriginFunc or AllowedOrigins is not needed"

ErrAllDisabled == "conflict settings: all origins disabled"

ErrFuncAndList ==
  "conflict settings: if a allow origin func is provided, AllowedOrigins is not needed"

ErrBadOrigin == "bad origin: origins must include http:// or https://"

\* the scheme test of Validate done on the letters "http" alone
BadOriginEntry_LettersOnly(c) ==
  \E i \in 1..SliceLen(c.AllowedOrigins) :
     ~HasPrefix(c.AllowedOrigins.elems[i], << "h","t","t","p" >>)

\* the scheme test Validate applies to every entry of the origin list
BadOriginEntry(c) ==
  \E i \in 1..SliceLen(c.AllowedOrigins) :
     /\ ~HasPrefix(c.AllowedOrigins.elems[i], SchemeHTTP)
     /\ ~HasPrefix(c.AllowedOrigins.elems[i], SchemeHTTPS)

\* Validate without the allow-all conflict test
Validate_NoAllowAllConflict(c) ==
  IF ~c.AllowAllOrigins /\ c.AllowOriginFunc.nil /\ SliceLen(c.AllowedOrigins) = 0
  THEN ErrAllDisabled
  ELSE IF ~c.AllowOriginFunc.nil /\ SliceLen(c.AllowedOrigins) > 0
  THEN ErrFuncAndList
  ELSE IF BadOriginEntry(c)
  THEN ErrBadOrigin
  ELSE NoError

\* Validate without the test for an empty authorization strategy
Validate_NoAllDisabled(c) ==
  IF c.AllowAllOrigins /\ (~c.AllowOriginFunc.nil \/ SliceLen(c.AllowedOrigins) > 0)
  THEN ErrAllAllowed
  ELSE IF ~c.AllowOriginFunc.nil /\ SliceLen(c.AllowedOrigins) > 0
  THEN ErrFuncAndList
  ELSE IF BadOriginEntry(c)
  THEN ErrBadOrigin
  ELSE NoError

\* Validate without the conflict test for a predicate given with a list
Validate_NoFuncAndList(c) ==
  IF c.AllowAllOrigins /\ (~c.AllowOriginFunc.nil \/ SliceLen(c.AllowedOrigins) > 0)
  THEN ErrAllAllowed
  ELSE IF ~c.AllowAllOrigins /\ c.AllowOriginFunc.nil /\ SliceLen(c.AllowedOrigins) = 0
  THEN ErrAllDisabled
  ELSE IF BadOriginEntry(c)
  THEN ErrBadOrigin
  ELSE NoError

Validate(c) ==
  IF c.AllowAllOrigins /\ (~c.AllowOriginFunc.nil \/ SliceLen(c.AllowedOrigins) > 0)
  THEN ErrAllAllowed
  ELSE IF ~c.AllowAllOrigins /\ c.AllowOriginFunc.nil /\ SliceLen(c.AllowedOrigins) = 0
  THEN ErrAllDisabled
  ELSE IF ~c.AllowOriginFunc.nil /\ SliceLen(c.AllowedOrigins) > 0
  THEN ErrFuncAndList
  ELSE IF BadOriginEntry(c)
  THEN ErrBadOrigin
  ELSE NoError

\* ------------------------------------------------------------------ header sets

\* generateNormalHeaders setting Vary whatever AllowAllOrigins is
generateNormalHeaders_AlwaysVary(c) ==
  LET h0 == MakeHeader
      h1 == IF c.AllowCredentials
            THEN HeaderSet(h0, "Access-Control-Allow-Credentials", StrTrue)
            ELSE h0
      h2 == IF SliceLen(c.ExposedHeaders) > 0
            THEN HeaderSet(h1, "Access-Control-Expose-Headers",
                           Join(c.ExposedHeaders.elems, CommaSpace))
            ELSE h1
      h3 == HeaderSet(h2, "Vary", StrOrigin)
  IN IF c.AllowAllOrigins
     THEN HeaderSet(h3, "Access-Control-Allow-Origin", StrStar)
     ELSE h3

generateNormalHeaders(c) ==
  LET h0 == MakeHeader
      h1 == IF c.AllowCredentials
            THEN HeaderSet(h0, "Access-Control-Allow-Credentials", StrTrue)
            ELSE h0
      h2 == IF SliceLen(c.ExposedHeaders) > 0
            THEN HeaderSet(h1, "Access-Control-Expose-Headers",
                           Join(c.ExposedHeaders.elems, CommaSpace))
            ELSE h1
  IN IF c.AllowAllOrigins
     THEN HeaderSet(h2, "Access-Control-Allow-Origin", StrStar)
     ELSE HeaderSet(h2, "Vary", StrOrigin)

\* generatePreflightHeaders starting from the normal header set
generatePreflightHeaders_WithExpose(c) ==
  LET h1 == generateNormalHeaders(c)
      h2 == IF SliceLen(c.AllowedMethods) > 0
            THEN HeaderSet(h1, "Access-Control-Allow-Methods",
                           Join(c.AllowedMethods.elems, CommaSpace))
            ELSE h1
      h3 == IF SliceLen(c.AllowedHeaders) > 0
            THEN HeaderSet(h2, "Access-Control-Allow-Headers",
                           Join(c.AllowedHeaders.elems, CommaSpace))
            ELSE h2
  IN IF c.MaxAge > 0
     THEN HeaderSet(h3, "Access-Control-Max-Age", FormatInt(c.MaxAge \div Second))
     ELSE h3

generatePreflightHeaders(c) ==
  LET h0 == MakeHeader
      h1 == IF c.AllowCredentials
            THEN HeaderSet(h0, "Access-Control-Allow-Credentials", StrTrue)
            ELSE h0
      h2 == IF SliceLen(c.AllowedMethods) > 0
            THEN HeaderSet(h1, "Access-Control-Allow-Methods",
                           Join(c.AllowedMethods.elems, CommaSpace))
            ELSE h1
      h3 == IF SliceLen(c.AllowedHeaders) > 0
            THEN HeaderSet(h2, "Access-Control-Allow-Headers",
                           Join(c.AllowedHeaders.elems, CommaSpace))
            ELSE h2
      h4 == IF c.MaxAge > 0
            THEN HeaderSet(h3, "Access-Control-Max-Age", FormatInt(c.MaxAge \div Second))
            ELSE h3
  IN IF c.AllowAllOrigins
     THEN HeaderSet(h4, "Access-Control-Allow-Origin", StrStar)
     ELSE HeaderSet(h4, "Vary", StrOrigin)

\* ------------------------------------------------------------------ cors

\* newCors, once Validate has returned nil
newCors(c) ==
  [ allowedOriginFunc |-> c.AllowOriginFunc,
    allowAllOrigins   |-> c.AllowAllOrigins,
    allowedOrigins    |-> normalize(c.AllowedOrigins),
    allowedMethods    |-> normalize(c.AllowedMethods),
    allowedHeaders    |-> normalize(c.AllowedHeaders),
    normalHeaders     |-> generateNormalHeaders(c),
    preflightHeaders  |-> generatePreflightHeaders(c) ]

\* validateOrigin without the allow-all branch
validateOrigin_NoAllowAll(cors, origin) ==
  IF ~cors.allowedOriginFunc.nil THEN origin \in cors.allowedOriginFunc.accepts
  ELSE \E i \in 1..SliceLen(cors.allowedOrigins) : cors.allowedOrigins.elems[i] = origin

\* validateOrigin scanning the origin list before it asks the predicate
validateOrigin_ListFirst(cors, origin) ==
  IF cors.allowAllOrigins THEN TRUE
  ELSE IF \E i \in 1..SliceLen(cors.allowedOrigins) : cors.allowedOrigins.elems[i] = origin
  THEN TRUE
  ELSE IF ~cors.allowedOriginFunc.nil THEN origin \in cors.allowedOriginFunc.accepts
  ELSE FALSE

validateOrigin(cors, origin) ==
  IF cors.allowAllOrigins THEN TRUE
  ELSE IF ~cors.allowedOriginFunc.nil THEN origin \in cors.allowedOriginFunc.accepts
  ELSE \E i \in 1..SliceLen(cors.allowedOrigins) : cors.allowedOrigins.elems[i] = origin

validateMethod(cors, method) ==
  \E i \in 1..SliceLen(cors.allowedMethods) :
     EqualFold(cors.allowedMethods.elems[i], method)

validateHeader(cors, header) ==
  \E i \in 1..SliceLen(cors.allowedHeaders) :
     EqualFold(cors.allowedHeaders.elems[i], header)

\* ------------------------------------------------------------------ inputs

HostGoogle == << "g",".","c","o" >>

OriginGoogle == SchemeHTTP \o HostGoogle

OriginGoogleTLS == SchemeHTTPS \o HostGoogle

OriginGithub == SchemeHTTP \o << "h","u","b" >>

OriginExtension == << "e","x","t",":","/","/","i","d" >>

\* "/http://g.co"
OriginSlash == << "/" >> \o OriginGoogle

\* "http?://g.co"
OriginQuestion == << "h","t","t","p","?",":","/","/" >> \o HostGoogle

\* "http://g.co "
OriginGoogleSpace == OriginGoogle \o << " " >>

\* the values of the Origin request header; <<>> is a request without one
RequestOrigins ==
  { <<>>, OriginGoogle, OriginGoogleTLS, OriginGithub, HostGoogle, OriginExtension }

ConfigOriginLists ==
  { NilSlice,
    Slice(<< OriginGoogle >>),
    Slice(<< OriginGoogle, OriginGithub >>),
    Slice(<< HostGoogle >>),
    Slice(<< OriginSlash >>),
    Slice(<< OriginGoogleSpace >>),
    Slice(<< OriginGoogleTLS, OriginQuestion >>) }

ConfigOriginFuncs == { NilFunc, Func({OriginGithub}) }

ConfigMethodLists ==
  { NilSlice, Slice(<< << " ","G","e","T"," " >>, << "g","e","t" >> >>) }

ConfigHeaderLists == { NilSlice, Slice(<< << "X","-","a"," " >> >>) }

ConfigExposedLists == { NilSlice, Slice(<< << "D","a","t","a" >>, << "x","-","U" >> >>) }

ConfigMaxAges == { 0, 12 * Hour }

Configs ==
  [ AllowAllOrigins  : BOOLEAN,
    AllowedOrigins   : ConfigOriginLists,
    AllowOriginFunc  : ConfigOriginFuncs,
    AllowedMethods   : ConfigMethodLists,
    AllowedHeaders   : ConfigHeaderLists,
    ExposedHeaders   : ConfigExposedLists,
    AllowCredentials : BOOLEAN,
    MaxAge           : ConfigMaxAges ]

\* DefaultConfig(); AbortOnError, which no code reads, is left out
DefaultConfig ==
  [ AllowAllOrigins  |-> TRUE,
    AllowedOrigins   |-> NilSlice,
    AllowOriginFunc  |-> NilFunc,
    AllowedMethods   |-> Slice(<< << "G","E","T" >>,
                                  << "P","O","S","T" >>,
                                  << "P","U","T" >>,
                                  << "P","A","T","C","H" >>,
                                  << "H","E","A","D" >> >>),
    AllowedHeaders   |-> Slice(<< << "C","o","n","t","e","n","t","-","T","y","p","e" >> >>),
    ExposedHeaders   |-> NilSlice,
    AllowCredentials |-> FALSE,
    MaxAge           |-> 12 * Hour ]

RequestMethods == { "GET", "OPTIONS" }

\* values of Access-Control-Request-Method; <<>> when the header is absent
RequestedMethods == { <<>>, << "g","e","t" >>, << "P","U","T" >> }

\* values of a header field; <<>> when the header is absent
RequestedHeaders == { <<>>, << "x","-","a" >> }

\* the names listed in Access-Control-Request-Headers
RequestedHeaderLists == { <<>>, << << "x","-","b" >> >> }

\* the Host of the requests the server receives
RequestHosts == { HostGoogle }

\* the request: its method and the header fields the handler or the
\* protocol reads
Requests ==
  [ Method     : RequestMethods,
    Host       : RequestHosts,
    Origin     : RequestOrigins,
    ACRMethod  : RequestedMethods,
    ACRHeader  : RequestedHeaders,
    ACRHeaders : RequestedHeaderLists ]

\* ------------------------------------------------------------------ gin

\* The handler sees the framework through the response abstraction of the
\* request context: a status that is set, a header map that is written by
\* name, and an abort that stops the handlers after it. The status of the
\* response is the last status set.

\* the status of a response no handler has set
DefaultStatus == 200

\* the response writer of a new request
NewWriter == [status |-> DefaultStatus, header |-> MakeHeader]

\* gin Context.Status
Status(w, code) == [w EXCEPT !.status = code]

\* gin Context.Header(key, value) for a non-empty value
ContextHeader(w, key, value) == [w EXCEPT !.header = HeaderSet(w.header, key, value)]

\* ------------------------------------------------------------------ state

VARIABLES
  config,       \* the Config handed to New
  phase,        \* "new", "panicked" or "ready"
  panicMsg,     \* the error New panicked with
  cors,         \* the *cors built by newCors
  req,          \* the request being served
  pc,           \* position of the request in the handler chain
  w,            \* the response writer of the request
  statusLog,    \* the statuses the middleware set, in order (history)
  aborted,      \* gin Context.IsAborted
  routeCalled,  \* the route handler ran
  outcome,      \* how applyCors left the request (history)
  served        \* requests started

vars ==
  << config, phase, panicMsg, cors, req, pc, w, statusLog, aborted, routeCalled,
     outcome, served >>

\* the zero value of struct cors
ZeroCors ==
  [ allowedOriginFunc |-> NilFunc,
    allowAllOrigins   |-> FALSE,
    allowedOrigins    |-> NilSlice,
    allowedMethods    |-> NilSlice,
    allowedHeaders    |-> NilSlice,
    normalHeaders     |-> MakeHeader,
    preflightHeaders  |-> MakeHeader ]

NoRequest ==
  [ Method |-> "GET", Host |-> HostGoogle, Origin |-> <<>>, ACRMethod |-> <<>>, ACRHeader |-> <<>>,
    ACRHeaders |-> <<>> ]

\* the configuration is one a caller writes or the one of Default()
Init ==
  /\ config \in Configs \cup { DefaultConfig }
  /\ phase = "new"
  /\ panicMsg = NoError
  /\ cors = ZeroCors
  /\ req = NoRequest
  /\ pc = "idle"
  /\ w = NewWriter
  /\ statusLog = <<>>
  /\ aborted = FALSE
  /\ routeCalled = FALSE
  /\ outcome = "none"
  /\ served = 0

\* New building the handler without validating the configuration
New_NoValidate ==
  /\ phase = "new"
  /\ phase' = "ready"
  /\ cors' = newCors(config)
  /\ UNCHANGED << config, panicMsg, req, pc, w, statusLog, aborted, routeCalled, outcome,
                  served >>

\* New(config): newCors panics with the error of Validate, or builds the
\* handler.
New ==
  /\ phase = "new"
  /\ IF Validate(config) # NoError
     THEN /\ phase' = "panicked"
          /\ panicMsg' = Validate(config)
          /\ cors' = cors
     ELSE /\ phase' = "ready"
          /\ panicMsg' = panicMsg
          /\ cors' = newCors(config)
  /\ UNCHANGED << config, req, pc, w, statusLog, aborted, routeCalled, outcome, served >>

\* the router hands a request to the handler chain
ServeHTTP ==
  /\ phase = "ready"
  /\ pc \in {"idle", "done"}
  /\ served < MaxRequests
  /\ \E r \in Requests : req' = r
  /\ pc' = "applyCors"
  /\ w' = NewWriter
  /\ statusLog' = <<>>
  /\ aborted' = FALSE
  /\ routeCalled' = FALSE
  /\ outcome' = "none"
  /\ served' = served + 1
  /\ UNCHANGED << config, phase, panicMsg, cors >>

\* applyCorsBranch without the test for a missing Origin header
applyCorsBranch_NoOriginTest(c, r) ==
  IF ~validateOrigin(c, r.Origin) THEN "failed"
  ELSE IF r.Method = "OPTIONS" THEN "handlePreflight"
  ELSE "handleNormal"

\* applyCorsBranch where a simple request skips the origin validation
applyCorsBranch_SimpleUnchecked(c, r) ==
  IF Len(r.Origin) = 0 THEN "next"
  ELSE IF r.Method = "OPTIONS"
       THEN IF validateOrigin(c, r.Origin) THEN "handlePreflight" ELSE "failed"
  ELSE "handleNormal"

\* applyCors up to the branch on the method: where the request goes
applyCorsBranch(c, r) ==
  IF Len(r.Origin) = 0 THEN "next"
  ELSE IF ~validateOrigin(c, r.Origin) THEN "failed"
  ELSE IF r.Method = "OPTIONS" THEN "handlePreflight"
  ELSE "handleNormal"

applyCors ==
  /\ pc = "applyCors"
  /\ pc' = applyCorsBranch(cors, req)
  /\ outcome' = IF pc' = "next" THEN "notCors" ELSE outcome
  /\ UNCHANGED << config, phase, panicMsg, cors, req, w, statusLog, aborted, routeCalled,
                  served >>

\* the status handlePreflight answers with
PreflightStatus == 200

\* handlePreflight, first statement: c.AbortWithStatus(200) sets the status
\* and aborts the chain
handlePreflightAbort ==
  /\ pc = "handlePreflight"
  /\ w' = Status(w, PreflightStatus)
  /\ statusLog' = Append(statusLog, PreflightStatus)
  /\ aborted' = TRUE
  /\ pc' = "validatePreflight"
  /\ UNCHANGED << config, phase, panicMsg, cors, req, routeCalled, outcome, served >>

\* handlePreflight, the rest: the requested method and header are validated
\* and the preflight headers copied
\* the two validations of handlePreflight: the value of
\* Access-Control-Request-Method, then the value of the header field
\* "Access-Control-Request-Header"
preflightValid(c, r) ==
  /\ validateMethod(c, r.ACRMethod)
  /\ validateHeader(c, r.ACRHeader)

\* handlePreflight copying the preflight headers before it validates
handlePreflightHeaders_CopyFirst(c, r, h) == CopyHeaders(h, c.preflightHeaders)

\* the headers handlePreflight leaves on the response
handlePreflightHeaders(c, r, h) ==
  IF preflightValid(c, r) THEN CopyHeaders(h, c.preflightHeaders) ELSE h

handlePreflight ==
  /\ pc = "validatePreflight"
  /\ pc' = IF preflightValid(cors, req) THEN "allowOrigin" ELSE "failed"
  /\ w' = [w EXCEPT !.header = handlePreflightHeaders(cors, req, w.header)]
  /\ outcome' = IF pc' = "allowOrigin" THEN "preflight" ELSE outcome
  /\ UNCHANGED << config, phase, panicMsg, cors, req, statusLog, aborted, routeCalled,
                  served >>

\* handleNormal copying the preflight header set
handleNormalHeaders_Preflight(c, h) == CopyHeaders(h, c.preflightHeaders)

\* the headers handleNormal leaves on the response
handleNormalHeaders(c, h) == CopyHeaders(h, c.normalHeaders)

handleNormal ==
  /\ pc = "handleNormal"
  /\ w' = [w EXCEPT !.header = handleNormalHeaders(cors, w.header)]
  /\ pc' = "allowOrigin"
  /\ outcome' = "simple"
  /\ UNCHANGED << config, phase, panicMsg, cors, req, statusLog, aborted, routeCalled,
                  served >>

\* applyCors echoing the origin also under allow-all
allowOriginValue_AlwaysEcho(c, origin) == origin

\* the value applyCors gives Access-Control-Allow-Origin
allowOriginValue(c, origin) == IF c.allowAllOrigins THEN StrStar ELSE origin

\* applyCors setting Access-Control-Allow-Origin in the header sets of the
\* handler before it copies them
allowOrigin_SharedSet ==
  /\ pc = "allowOrigin"
  /\ cors' = [cors EXCEPT
                !.normalHeaders = HeaderSet(@, "Access-Control-Allow-Origin", req.Origin),
                !.preflightHeaders = HeaderSet(@, "Access-Control-Allow-Origin", req.Origin)]
  /\ w' = [w EXCEPT !.header =
              CopyHeaders(@, IF req.Method = "OPTIONS" THEN cors'.preflightHeaders
                             ELSE cors'.normalHeaders)]
  /\ pc' = "next"
  /\ UNCHANGED << config, phase, panicMsg, req, statusLog, aborted, routeCalled, outcome,
                  served >>

\* applyCors after the branch: Access-Control-Allow-Origin is set
allowOrigin ==
  /\ pc = "allowOrigin"
  /\ w' = ContextHeader(w, "Access-Control-Allow-Origin",
                        allowOriginValue(cors, req.Origin))
  /\ pc' = "next"
  /\ UNCHANGED << config, phase, panicMsg, cors, req, statusLog, aborted, routeCalled,
                  outcome, served >>

\* http.StatusForbidden
StatusForbidden == 403

\* applyCors, label failed: c.AbortWithStatus(http.StatusForbidden) sets the
\* status and aborts the chain
failed ==
  /\ pc = "failed"
  /\ w' = Status(w, StatusForbidden)
  /\ statusLog' = Append(statusLog, StatusForbidden)
  /\ aborted' = TRUE
  /\ pc' = "next"
  /\ outcome' = "forbidden"
  /\ UNCHANGED << config, phase, panicMsg, cors, req, routeCalled, served >>

\* a chain that runs the route handler whether or not the context is aborted
RouteHandler_IgnoresAbort ==
  /\ pc = "next"
  /\ routeCalled' = TRUE
  /\ w' = Status(w, 200)
  /\ pc' = "done"
  /\ UNCHANGED << config, phase, panicMsg, cors, req, statusLog, aborted, outcome, served >>

\* the rest of the chain: the route handler runs unless the context is
\* aborted, and answers 200.
RouteHandler ==
  /\ pc = "next"
  /\ routeCalled' = ~aborted
  /\ w' = IF aborted THEN w ELSE Status(w, 200)
  /\ pc' = "done"
  /\ UNCHANGED << config, phase, panicMsg, cors, req, statusLog, aborted, outcome, served >>

Next ==
  \/ New
  \/ ServeHTTP
  \/ applyCors
  \/ handlePreflightAbort
  \/ handlePreflight
  \/ handleNormal
  \/ allowOrigin
  \/ failed
  \/ RouteHandler

Spec == Init /\ [][Next]_vars

\* ------------------------------------------------------------------ origin policy of the specification
\* The scheme classes, the wildcard rules and the context-aware predicate
\* have no implementation among the sources above: Config has no field for
\* them (src/cors.go lines 11-46) and validateOrigin compares whole strings.
\* This part follows sections 3, 4.1, 4.2 and 4.4 of the specification. Its
\* matcher covers the decision steps 1 to 5 and 8; regular-expression
\* entries (step 6) are left out, and step 7 repeats steps 4 and 5 on a
\* subset of the entries.

\* strings.HasSuffix
HasSuffix(s, suffix) ==
  /\ Len(s) >= Len(suffix)
  /\ SubSeq(s, Len(s) - Len(suffix) + 1, Len(s)) = suffix

SchemeSep == << ":","/","/" >>

SchemeChromeExtension == << "c","h","r","o","m","e","-","e","x","t","e","n","s","i","o","n" >>

SchemeSafariExtension == << "s","a","f","a","r","i","-","e","x","t","e","n","s","i","o","n" >>

SchemeMozExtension == << "m","o","z","-","e","x","t","e","n","s","i","o","n" >>

\* the browser-extension scheme class
ExtensionSchemes == { SchemeChromeExtension, SchemeSafariExtension, SchemeMozExtension }

\* the websocket scheme class
WebSocketSchemes == { << "w","s" >>, << "w","s","s" >> }

\* the file scheme class
FileSchemes == { << "f","i","l","e" >> }

SchemeTauri == << "t","a","u","r","i" >>

\* the positions of the wildcard token in an entry
WildcardPositions(entry) == { i \in 1..Len(entry) : entry[i] = "*" }

\* entry starts with scheme followed by "://"
HasScheme(entry, scheme) == HasPrefix(entry, scheme \o SchemeSep)

\* a toggle of the browser-extension class accepting every scheme
acceptedScheme_AnyExtension(c, entry) ==
  \/ HasPrefix(entry, SchemeHTTP)
  \/ HasPrefix(entry, SchemeHTTPS)
  \/ c.allowBrowserExtensions
       /\ \E i \in 1..(Len(entry) - 2) : SubSeq(entry, i, i + 2) = SchemeSep
  \/ c.allowWebSockets /\ \E sch \in WebSocketSchemes : HasScheme(entry, sch)
  \/ c.allowFiles /\ \E sch \in FileSchemes : HasScheme(entry, sch)
  \/ \E sch \in c.customSchemes : HasScheme(entry, sch)

\* section 3: a literal entry carries a recognized scheme, http://, https://
\* or an enabled extension, websocket, file or custom scheme
acceptedScheme(c, entry) ==
  \/ HasPrefix(entry, SchemeHTTP)
  \/ HasPrefix(entry, SchemeHTTPS)
  \/ c.allowBrowserExtensions /\ \E sch \in ExtensionSchemes : HasScheme(entry, sch)
  \/ c.allowWebSockets /\ \E sch \in WebSocketSchemes : HasScheme(entry, sch)
  \/ c.allowFiles /\ \E sch \in FileSchemes : HasScheme(entry, sch)
  \/ \E sch \in c.customSchemes : HasScheme(entry, sch)

ConfigErrorConflict == "conflict settings"

ConfigErrorBadOrigin == "bad origin"

ConfigErrorWildcard == "bad wildcard"

\* section 4.1 (a): the strategies the configuration sets among allow-all,
\* predicate(s) and non-empty origin list
activeStrategies(c) ==
  (IF c.allowAllOrigins THEN {"allow-all"} ELSE {})
    \cup (IF ~c.originPredicate.nil \/ ~c.contextOriginPredicate.nil
          THEN {"predicate"} ELSE {})
    \cup (IF Len(c.allowedOrigins) > 0 THEN {"list"} ELSE {})

\* section 4.1: validate(config) -> ok | ConfigError, NoError for ok
validate(c) ==
  IF Cardinality(activeStrategies(c)) # 1
  THEN ConfigErrorConflict
  ELSE IF \E i \in 1..Len(c.allowedOrigins) :
             LET n == Cardinality(WildcardPositions(c.allowedOrigins[i]))
             IN n > 1 \/ (n = 1 /\ ~c.allowWildcard)
  THEN ConfigErrorWildcard
  ELSE IF \E i \in 1..Len(c.allowedOrigins) :
             /\ WildcardPositions(c.allowedOrigins[i]) = {}
             /\ ~acceptedScheme(c, c.allowedOrigins[i])
  THEN ConfigErrorBadOrigin
  ELSE NoError

\* section 4.2 step 5: the (prefix, suffix) pair of an entry, split at its
\* single wildcard token
wildcardRule(entry) ==
  LET i == CHOOSE k \in WildcardPositions(entry) : TRUE
  IN [prefix |-> SubSeq(entry, 1, i - 1), suffix |-> SubSeq(entry, i + 1, Len(entry))]

\* section 3, Compiled Matcher: the wildcard-rule table
parseWildcardRules(c) ==
  IF ~c.allowWildcard THEN {}
  ELSE { wildcardRule(c.allowedOrigins[i]) :
           i \in { k \in 1..Len(c.allowedOrigins) :
                     WildcardPositions(c.allowedOrigins[k]) # {} } }

\* a wildcard rule matching without the length test
matchesRule_NoLength(rule, origin) ==
  /\ HasPrefix(origin, rule.prefix)
  /\ HasSuffix(origin, rule.suffix)

\* section 4.2 step 5: the origin starts with prefix, ends with suffix and
\* is at least as long as both
matchesRule(rule, origin) ==
  /\ HasPrefix(origin, rule.prefix)
  /\ HasSuffix(origin, rule.suffix)
  /\ Len(origin) >= Len(rule.prefix) + Len(rule.suffix)

\* section 3, Compiled Matcher
compile(c) ==
  [ allowAllOrigins        |-> c.allowAllOrigins,
    originPredicate        |-> c.originPredicate,
    contextOriginPredicate |-> c.contextOriginPredicate,
    allowedOrigins         |-> c.allowedOrigins,
    allowWildcard          |-> c.allowWildcard,
    wildcardRules          |-> parseWildcardRules(c) ]

\* the matcher asking the context-free predicate first
allowed_ContextFreeFirst(m, origin, context) ==
  IF m.allowAllOrigins THEN TRUE
  ELSE IF ~m.originPredicate.nil THEN origin \in m.originPredicate.accepts
  ELSE IF ~m.contextOriginPredicate.nil
  THEN << context, origin >> \in m.contextOriginPredicate.accepts
  ELSE IF \E i \in 1..Len(m.allowedOrigins) : m.allowedOrigins[i] = origin THEN TRUE
  ELSE IF m.allowWildcard THEN \E rule \in m.wildcardRules : matchesRule(rule, origin)
  ELSE FALSE

\* section 4.2: allowed(origin, context) -> bool; a context-aware predicate
\* is the set of (path, origin) pairs it accepts
allowed(m, origin, context) ==
  IF m.allowAllOrigins THEN TRUE
  ELSE IF ~m.contextOriginPredicate.nil
  THEN << context, origin >> \in m.contextOriginPredicate.accepts
  ELSE IF ~m.originPredicate.nil THEN origin \in m.originPredicate.accepts
  ELSE IF \E i \in 1..Len(m.allowedOrigins) : m.allowedOrigins[i] = origin THEN TRUE
  ELSE IF m.allowWildcard THEN \E rule \in m.wildcardRules : matchesRule(rule, origin)
  ELSE FALSE

\* "http://a.g.co"
OriginSub == SchemeHTTP \o << "a","." >> \o HostGoogle

\* "https://a.g.co"
OriginSubTLS == SchemeHTTPS \o << "a","." >> \o HostGoogle

\* "http://*.g.co"
WildSub == SchemeHTTP \o << "*","." >> \o HostGoogle

\* "*.g.co"
WildHost == << "*","." >> \o HostGoogle

\* "http://g*g.co"
WildInner == SchemeHTTP \o << "g","*" >> \o HostGoogle

\* "http://*.*.co"
WildTwo == SchemeHTTP \o << "*",".","*",".","c","o" >>

\* "tauri://l"
OriginTauri == SchemeTauri \o SchemeSep \o << "l" >>

\* "chrome-extension://id"
OriginChrome == SchemeChromeExtension \o SchemeSep \o << "i","d" >>

\* "ws://s"
OriginWebSocket == << "w","s" >> \o SchemeSep \o << "s" >>

\* "file://f"
OriginFile == << "f","i","l","e" >> \o SchemeSep \o << "f" >>

PolicyOriginLists ==
  { <<>>,
    << OriginGoogle >>,
    << OriginGithub, WildSub >>,
    << WildHost >>,
    << WildInner >>,
    << WildTwo >>,
    << HostGoogle >>,
    << OriginTauri >>,
    << OriginChrome >>,
    << OriginWebSocket >>,
    << OriginFile >> }

\* the request paths a context-aware predicate tells apart
RequestPaths == { "/app1", "/app2" }

\* a predicate in the manner of the multi-route-group scenario: one origin
\* per path prefix
PolicyContextFuncs ==
  { NilFunc, Func({ << "/app1", OriginGoogle >>, << "/app2", OriginGithub >> }) }

PolicyConfigs ==
  [ allowAllOrigins        : BOOLEAN,
    allowedOrigins         : PolicyOriginLists,
    originPredicate        : ConfigOriginFuncs,
    contextOriginPredicate : PolicyContextFuncs,
    allowWildcard          : BOOLEAN,
    allowBrowserExtensions : BOOLEAN,
    allowWebSockets        : BOOLEAN,
    allowFiles             : BOOLEAN,
    customSchemes          : { {}, { SchemeTauri } } ]

PolicyRequestOrigins ==
  { <<>>, OriginGoogle, OriginGithub, OriginSub, OriginSubTLS, OriginTauri, OriginChrome }

\* the request as the matcher and the handler of section 4.4 see it; the
\* origin decision is the same for a simple request and a preflight
PolicyRequests == [ Path : RequestPaths, Origin : PolicyRequestOrigins ]

PolicyNoRequest == [ Path |-> "/app1", Origin |-> <<>> ]

PolicyInit ==
  /\ config \in PolicyConfigs
  /\ phase = "new"
  /\ panicMsg = NoError
  /\ cors = ZeroCors
  /\ req = PolicyNoRequest
  /\ pc = "idle"
  /\ w = NewWriter
  /\ statusLog = <<>>
  /\ aborted = FALSE
  /\ routeCalled = FALSE
  /\ outcome = "none"
  /\ served = 0

\* section 6: build(config) -> Handler | fatal construction error
build ==
  /\ phase = "new"
  /\ IF validate(config) # NoError
     THEN /\ phase' = "panicked"
          /\ panicMsg' = validate(config)
          /\ cors' = cors
     ELSE /\ phase' = "ready"
          /\ panicMsg' = panicMsg
          /\ cors' = compile(config)
  /\ UNCHANGED << config, req, pc, w, statusLog, aborted, routeCalled, outcome, served >>

\* section 4.4: a request without Origin proceeds untouched; otherwise the
\* matcher decides, and a refused request is marked forbidden and stopped
handle ==
  /\ phase = "ready"
  /\ served < MaxRequests
  /\ \E r \in PolicyRequests :
        /\ req' = r
        /\ IF Len(r.Origin) = 0
           THEN /\ outcome' = "notCors"
                /\ w' = NewWriter
                /\ statusLog' = <<>>
                /\ aborted' = FALSE
           ELSE IF allowed(cors, r.Origin, r.Path)
           THEN /\ outcome' = "allowed"
                /\ w' = ContextHeader(NewWriter, "Access-Control-Allow-Origin",
                                      IF cors.allowAllOrigins THEN StrStar ELSE r.Origin)
                /\ statusLog' = <<>>
                /\ aborted' = FALSE
           ELSE /\ outcome' = "forbidden"
                /\ w' = Status(NewWriter, StatusForbidden)
                /\ statusLog' = << StatusForbidden >>
                /\ aborted' = TRUE
  /\ pc' = "done"
  /\ served' = served + 1
  /\ UNCHANGED << config, phase, panicMsg, cors, routeCalled >>

PolicyNext ==
  \/ build
  \/ handle

PolicySpec == PolicyInit /\ [][PolicyNext]_vars

\* ------------------------------------------------------------------ normalize

\* the longest list given to normalize
MaxLen == 3

\* the entries of the lists: "", "a", " A", "x-a ", "X-A", "a b"
NormalizeStrings ==
  { <<>>,
    << "a" >>,
    << " ", "A" >>,
    << "x", "-", "a", " " >>,
    << "X", "-", "A" >>,
    << "a", " ", "b" >> }

\* nil and the lists of at most MaxLen entries
NormalizeInputs ==
  { NilSlice } \cup
  { Slice(elems) : elems \in UNION { [1..n -> NormalizeStrings] : n \in 0..MaxLen } }

\* a list before it is normalised: config.values is the list, cors.once
\* will hold normalize(values) and cors.twice normalize(normalize(values))
NormalizeInit ==
  /\ config \in [ values : NormalizeInputs ]
  /\ phase = "new"
  /\ panicMsg = NoError
  /\ cors = [ once |-> NilSlice, twice |-> NilSlice ]
  /\ req = NoRequest
  /\ pc = "idle"
  /\ w = NewWriter
  /\ statusLog = <<>>
  /\ aborted = FALSE
  /\ routeCalled = FALSE
  /\ outcome = "none"
  /\ served = 0

\* normalize(values)
normalizeOnce ==
  /\ phase = "new"
  /\ cors' = [cors EXCEPT !.once = normalize(config.values)]
  /\ phase' = "once"
  /\ UNCHANGED << config, panicMsg, req, pc, w, statusLog, aborted, routeCalled, outcome,
                  served >>

\* normalize applied to its own result
normalizeTwice ==
  /\ phase = "once"
  /\ cors' = [cors EXCEPT !.twice = normalize(cors.once)]
  /\ phase' = "twice"
  /\ UNCHANGED << config, panicMsg, req, pc, w, statusLog, aborted, routeCalled, outcome,
                  served >>

NormalizeNext ==
  \/ normalizeOnce
  \/ normalizeTwice

NormalizeSpec == NormalizeInit /\ [][NormalizeNext]_vars

\* ------------------------------------------------------------------ claims

\* the request has left the handler chain
Done == phase = "ready" /\ pc = "done"

HasOrigin == Len(req.Origin) > 0

\* C1: a request without an Origin header, whatever its method, gets no CORS
\* response header, is not aborted and has no status set by the middleware;
\* it reaches the route handler.
C1_NoOriginPassThrough ==
  (phase = "ready" /\ pc # "idle" /\ ~HasOrigin) =>
     /\ pc \in {"applyCors", "next", "done"}
     /\ ~aborted
     /\ HeaderNames(w.header) = {}
     /\ statusLog = <<>>
     /\ (pc # "done" => w = NewWriter)
     /\ (pc = "done" => routeCalled /\ outcome = "notCors")

C1_Witness ==
  /\ Done
  /\ ~HasOrigin
  /\ req.Method = "OPTIONS"
  /\ routeCalled
  /\ cors.allowAllOrigins

StatusNoContent == 204

\* C3: an approved preflight is answered with 204, is short-circuited (the
\* route handler is not invoked) and carries the preflight header set
\* together with Access-Control-Allow-Origin.
C3_ApprovedPreflightNoContent ==
  (Done /\ outcome = "preflight") =>
     /\ w.status = StatusNoContent
     /\ aborted
     /\ ~routeCalled
     /\ \A k \in HeaderNames(cors.preflightHeaders) \ {"Access-Control-Allow-Origin"} :
           w.header[k] = cors.preflightHeaders[k]
     /\ w.header["Access-Control-Allow-Origin"] # <<>>

\* C4: a preflight from an allowed origin is approved if and only if the
\* value of Access-Control-Request-Method equals, ignoring case, an allowed
\* method and every name listed in Access-Control-Request-Headers equals,
\* ignoring case, an allowed header; every other preflight is refused
\* (the handler takes its 403 exit).
C4_PreflightApprovedIff ==
  (Done /\ HasOrigin /\ req.Method = "OPTIONS" /\ validateOrigin(cors, req.Origin)) =>
     /\ (outcome = "preflight") <=>
           /\ validateMethod(cors, req.ACRMethod)
           /\ \A i \in 1..Len(req.ACRHeaders) : validateHeader(cors, req.ACRHeaders[i])
     /\ (outcome # "preflight" => outcome = "forbidden")

\* C5: an OPTIONS request that fails validation (origin, requested method or
\* requested headers) ends with status 403, with none of the five preflight
\* CORS headers on the response and the route handler not invoked.
C5_RefusedPreflightForbidden ==
  (Done /\ HasOrigin /\ req.Method = "OPTIONS" /\ outcome # "preflight") =>
     /\ outcome = "forbidden"
     /\ w.status = StatusForbidden
     /\ aborted
     /\ ~routeCalled
     /\ HeaderNames(w.header) \cap
          { "Access-Control-Allow-Origin", "Access-Control-Allow-Credentials",
            "Access-Control-Allow-Methods", "Access-Control-Allow-Headers",
            "Access-Control-Max-Age" } = {}

C5_Witness ==
  /\ Done
  /\ req.Method = "OPTIONS"
  /\ outcome = "forbidden"
  /\ validateOrigin(cors, req.Origin)
  /\ SliceLen(config.AllowedHeaders) > 0
  /\ config.MaxAge > 0
  /\ statusLog = << PreflightStatus, StatusForbidden >>
  /\ w.status = StatusForbidden

\* C6: an approved CORS request, simple or preflight, carries exactly one
\* Access-Control-Allow-Origin value: "*" under allow-all, otherwise the
\* Origin of the request unchanged.
C6_AllowOriginExact ==
  (phase = "ready" /\ pc \in {"next", "done"} /\ outcome \in {"simple", "preflight"}) =>
     w.header["Access-Control-Allow-Origin"] =
        << IF config.AllowAllOrigins THEN StrStar ELSE req.Origin >>

C6_Witness ==
  /\ Done
  /\ outcome = "preflight"
  /\ ~config.AllowAllOrigins
  /\ req.Origin = OriginGithub
  /\ w.header["Access-Control-Allow-Origin"] = << OriginGithub >>

\* C7: a non-OPTIONS request from an allowed origin is not aborted, every
\* entry of the normal header set is on its response, and the route handler
\* runs.
C7_AllowedSimpleCarriesNormalHeaders ==
  (Done /\ HasOrigin /\ req.Method # "OPTIONS" /\ validateOrigin(cors, req.Origin)) =>
     /\ ~aborted
     /\ routeCalled
     /\ outcome = "simple"
     /\ \A k \in HeaderNames(cors.normalHeaders) : w.header[k] = cors.normalHeaders[k]

C7_Witness ==
  /\ Done
  /\ req.Method = "GET"
  /\ req.Origin = OriginGoogle
  /\ ~config.AllowAllOrigins
  /\ config.AllowCredentials
  /\ routeCalled
  /\ w.header["Access-Control-Expose-Headers"] # <<>>
  /\ w.header["Vary"] = << StrOrigin >>

\* C8: under allowAllOrigins the matcher answers true for every origin
\* string, whatever its scheme or shape, so no request is refused for its
\* origin.
C8_AllowAllMatchesEveryOrigin ==
  (phase = "ready" /\ config.AllowAllOrigins) =>
     /\ \A o \in RequestOrigins : validateOrigin(cors, o)
     /\ (pc = "failed" => req.Method = "OPTIONS")
     /\ (pc = "done" /\ HasOrigin /\ req.Method # "OPTIONS" => outcome = "simple")

C8_Witness ==
  /\ Done
  /\ config.AllowAllOrigins
  /\ req.Origin = HostGoogle
  /\ outcome = "simple"
  /\ validateOrigin(cors, OriginExtension)

\* C9: Validate returns an error and New panics whenever allowAllOrigins is
\* set together with an origin predicate or a non-empty origin list.
C9_AllowAllConflictPanics ==
  (config.AllowAllOrigins
     /\ (~config.AllowOriginFunc.nil \/ SliceLen(config.AllowedOrigins) > 0)) =>
     /\ Validate(config) # NoError
     /\ phase \in {"new", "panicked"}
     /\ (phase = "panicked" => panicMsg = ErrAllAllowed)

C9_Witness ==
  /\ phase = "panicked"
  /\ config.AllowAllOrigins
  /\ ~config.AllowOriginFunc.nil
  /\ SliceLen(config.AllowedOrigins) = 0

\* the zero value of Config
ZeroConfig ==
  [ AllowAllOrigins  |-> FALSE,
    AllowedOrigins   |-> NilSlice,
    AllowOriginFunc  |-> NilFunc,
    AllowedMethods   |-> NilSlice,
    AllowedHeaders   |-> NilSlice,
    ExposedHeaders   |-> NilSlice,
    AllowCredentials |-> FALSE,
    MaxAge           |-> 0 ]

\* C10: Validate returns an error and New panics whenever allowAllOrigins is
\* off, no origin predicate is set and the origin list is empty, the zero
\* Config included.
C10_NoStrategyPanics ==
  (~config.AllowAllOrigins /\ config.AllowOriginFunc.nil
     /\ SliceLen(config.AllowedOrigins) = 0) =>
     /\ Validate(config) # NoError
     /\ phase \in {"new", "panicked"}
     /\ (phase = "panicked" => panicMsg = ErrAllDisabled)

C10_Witness ==
  /\ phase = "panicked"
  /\ config = ZeroConfig
  /\ panicMsg = ErrAllDisabled

C12_NewPanicsIffInvalid ==
  /\ (phase = "panicked" =>
        /\ Validate(config) # NoError
        /\ panicMsg = Validate(config)
        /\ cors = ZeroCors
        /\ pc = "idle"
        /\ served = 0)
  /\ (phase = "ready" =>
        /\ Validate(config) = NoError
        /\ panicMsg = NoError
        /\ cors = newCors(config))
  /\ (pc # "idle" => phase = "ready")

C12_Witness ==
  /\ phase = "panicked"
  /\ panicMsg = ErrAllAllowed
  /\ SliceLen(config.AllowedOrigins) > 0
  /\ config.AllowOriginFunc.nil

\* the configuration sets an origin predicate and a non-empty origin list,
\* with allow-all off
FuncAndList ==
  /\ ~config.AllowAllOrigins
  /\ ~config.AllowOriginFunc.nil
  /\ SliceLen(config.AllowedOrigins) > 0

C14_FuncAndListAccepted ==
  (FuncAndList /\ ~BadOriginEntry(config)) =>
     /\ phase # "panicked"
     /\ (phase = "ready" =>
           \A o \in RequestOrigins :
              validateOrigin(cors, o) <=>
                 \/ \E i \in 1..SliceLen(config.AllowedOrigins) :
                       config.AllowedOrigins.elems[i] = o
                 \/ o \in config.AllowOriginFunc.accepts)

C16_BarePreflightApproved ==
  (Done /\ HasOrigin /\ req.Method = "OPTIONS" /\ validateOrigin(cors, req.Origin)
     /\ req.ACRMethod = <<>> /\ req.ACRHeader = <<>> /\ req.ACRHeaders = <<>>) =>
     /\ outcome = "preflight"
     /\ w.status \in 200..299
     /\ w.header["Access-Control-Allow-Origin"] =
           << IF config.AllowAllOrigins THEN StrStar ELSE req.Origin >>
     /\ \A k \in { "Access-Control-Allow-Methods", "Access-Control-Allow-Headers",
                   "Access-Control-Max-Age" } :
           w.header[k] = cors.preflightHeaders[k]

\* C17: no response of a handler New has built carries both
\* Access-Control-Allow-Origin: * and Access-Control-Allow-Credentials: true.
C17_NoStarWithCredentials ==
  phase = "ready" =>
     ~ /\ w.header["Access-Control-Allow-Origin"] = << StrStar >>
       /\ w.header["Access-Control-Allow-Credentials"] = << StrTrue >>

\* the origin list is the only authorization strategy of the configuration
ListStrategy ==
  /\ ~config.allowAllOrigins
  /\ config.originPredicate.nil
  /\ config.contextOriginPredicate.nil

\* what the claim says of one list entry and one origin
EntryAllows(entry, origin) ==
  IF config.allowWildcard /\ Cardinality(WildcardPositions(entry)) = 1
  THEN \E i \in 1..Len(entry) :
          /\ entry[i] = "*"
          /\ HasPrefix(origin, SubSeq(entry, 1, i - 1))
          /\ HasSuffix(origin, SubSeq(entry, i + 1, Len(entry)))
          /\ Len(origin) >= Len(entry) - 1
  ELSE entry = origin

C20_SchemeEnabled ==
  ListStrategy =>
     /\ (phase = "ready" =>
           \A i \in 1..Len(config.allowedOrigins) :
              LET entry == config.allowedOrigins[i]
              IN /\ (entry = OriginTauri => SchemeTauri \in config.customSchemes)
                 /\ (entry = OriginChrome => config.allowBrowserExtensions)
                 /\ (entry = OriginWebSocket => config.allowWebSockets)
                 /\ (entry = OriginFile => config.allowFiles))
     /\ (config.allowedOrigins = << OriginTauri >> =>
           IF SchemeTauri \in config.customSchemes
           THEN validate(config) = NoError /\ phase # "panicked"
           ELSE validate(config) = ConfigErrorBadOrigin /\ phase # "ready")
     /\ (config.allowedOrigins = << OriginChrome >> /\ config.allowBrowserExtensions =>
           validate(config) = NoError /\ phase # "panicked")
     /\ (config.allowedOrigins = << OriginWebSocket >> /\ config.allowWebSockets =>
           validate(config) = NoError /\ phase # "panicked")
     /\ (config.allowedOrigins = << OriginFile >> /\ config.allowFiles =>
           validate(config) = NoError /\ phase # "panicked")

C20_Witness ==
  /\ phase = "panicked"
  /\ panicMsg = ConfigErrorBadOrigin
  /\ ListStrategy
  /\ config.allowedOrigins = << OriginTauri >>
  /\ config.allowBrowserExtensions
  /\ config.customSchemes = {}

\* C21: a request whose Origin is "http://" or "https://" followed by its
\* own Host is handled as a request without Origin: it reaches the route
\* handler and gets no CORS response header, also when the configuration
\* does not allow that origin.
C21_OriginIsHostPassThrough ==
  (Done /\ req.Origin \in { SchemeHTTP \o req.Host, SchemeHTTPS \o req.Host }) =>
     /\ outcome = "notCors"
     /\ routeCalled
     /\ ~aborted
     /\ HeaderNames(w.header) = {}

\* C22: DefaultConfig() has AllowAllOrigins false, no origin list and no
\* predicate, methods GET, POST, PUT, HEAD, credentials off and a max age of
\* 12 hours, so New(DefaultConfig()) panics; with AllowAllOrigins set to true
\* it is accepted and its handler allows every origin.
C22_DefaultConfigHasNoStrategy ==
  (config = DefaultConfig /\ phase # "new") =>
     /\ ~config.AllowAllOrigins
     /\ SliceLen(config.AllowedOrigins) = 0
     /\ config.AllowOriginFunc.nil
     /\ config.AllowedMethods =
           Slice(<< << "G","E","T" >>, << "P","O","S","T" >>,
                    << "P","U","T" >>, << "H","E","A","D" >> >>)
     /\ ~config.AllowCredentials
     /\ config.MaxAge = 12 * Hour
     /\ phase = "panicked"
     /\ Validate([config EXCEPT !.AllowAllOrigins = TRUE]) = NoError
     /\ \A o \in RequestOrigins :
           validateOrigin(newCors([config EXCEPT !.AllowAllOrigins = TRUE]), o)

\* how a handler leaves a request, from its matcher data and the request
ExpectedOutcome(c, r) ==
  IF Len(r.Origin) = 0 THEN "notCors"
  ELSE IF ~validateOrigin(c, r.Origin) THEN "forbidden"
  ELSE IF r.Method # "OPTIONS" THEN "simple"
  ELSE IF validateMethod(c, r.ACRMethod) /\ validateHeader(c, r.ACRHeader) THEN "preflight"
  ELSE "forbidden"

\* the response headers that go with an outcome
ExpectedHeader(c, r) ==
  LET out == ExpectedOutcome(c, r)
      acao == IF c.allowAllOrigins THEN StrStar ELSE r.Origin
  IN IF out = "simple"
     THEN HeaderSet(CopyHeaders(MakeHeader, c.normalHeaders),
                    "Access-Control-Allow-Origin", acao)
     ELSE IF out = "preflight"
     THEN HeaderSet(CopyHeaders(MakeHeader, c.preflightHeaders),
                    "Access-Control-Allow-Origin", acao)
     ELSE MakeHeader

\* the status that goes with an outcome
ExpectedStatus(c, r) ==
  LET out == ExpectedOutcome(c, r)
  IN IF out = "forbidden" THEN StatusForbidden
     ELSE IF out = "preflight" THEN PreflightStatus
     ELSE 200

OriginHint(h, allowAll) ==
  IF allowAll
  THEN /\ "Access-Control-Allow-Origin" \in HeaderNames(h)
       /\ h["Access-Control-Allow-Origin"] = << StrStar >>
       /\ "Vary" \notin HeaderNames(h)
  ELSE /\ "Vary" \in HeaderNames(h)
       /\ h["Vary"] = << StrOrigin >>
       /\ "Access-Control-Allow-Origin" \notin HeaderNames(h)

\* C24: the normal and the preflight header set of a handler each hold
\* exactly one of Vary: Origin and Access-Control-Allow-Origin: *, the
\* first when allow-all is off and the second when it is on.
C24_ExactlyOneOriginHint ==
  phase = "ready" =>
     /\ OriginHint(cors.normalHeaders, config.AllowAllOrigins)
     /\ OriginHint(cors.preflightHeaders, config.AllowAllOrigins)

C24_Witness ==
  /\ phase = "ready"
  /\ config.AllowAllOrigins
  /\ config.AllowCredentials
  /\ cors.normalHeaders["Access-Control-Allow-Origin"] = << StrStar >>
  /\ cors.preflightHeaders["Access-Control-Allow-Origin"] = << StrStar >>

PreflightOnlyKeys ==
  { "Access-Control-Allow-Methods", "Access-Control-Allow-Headers", "Access-Control-Max-Age" }

\* C25: Access-Control-Expose-Headers is in the normal set only, and there
\* exactly when exposed headers are configured; Access-Control-Allow-Methods,
\* Access-Control-Allow-Headers and Access-Control-Max-Age are in the
\* preflight set only, Max-Age exactly when the max age is positive; an
\* approved simple response has none of the three and an approved preflight
\* response has no Access-Control-Expose-Headers.
C25_SpecificKeysDisjoint ==
  phase = "ready" =>
     /\ ("Access-Control-Expose-Headers" \in HeaderNames(cors.normalHeaders))
           <=> (SliceLen(config.ExposedHeaders) > 0)
     /\ HeaderNames(cors.normalHeaders) \cap PreflightOnlyKeys = {}
     /\ "Access-Control-Expose-Headers" \notin HeaderNames(cors.preflightHeaders)
     /\ ("Access-Control-Max-Age" \in HeaderNames(cors.preflightHeaders))
           <=> (config.MaxAge > 0)
     /\ (Done /\ outcome = "simple") =>
           HeaderNames(w.header) \cap PreflightOnlyKeys = {}
     /\ (Done /\ outcome = "preflight") =>
           "Access-Control-Expose-Headers" \notin HeaderNames(w.header)

C25_Witness ==
  /\ Done
  /\ outcome = "preflight"
  /\ SliceLen(config.ExposedHeaders) > 0
  /\ config.MaxAge > 0
  /\ "Access-Control-Max-Age" \in HeaderNames(w.header)
  /\ "Access-Control-Expose-Headers" \in HeaderNames(cors.normalHeaders)

\* a header of the preflight set holds the join of the normalised list
JoinedNormalized(h, key, list) ==
  SliceLen(list) > 0 =>
     /\ key \in HeaderNames(h)
     /\ \E sep \in { << "," >>, CommaSpace } :
           h[key] = << Join(normalize(list).elems, sep) >>

\* C26: the Access-Control-Allow-Methods and Access-Control-Allow-Headers
\* values of the preflight set are the comma-joined allowed methods and
\* allowed headers after trimming, canonical casing and removal of
\* duplicates in first-seen order.
C26_PreflightListsNormalized ==
  phase = "ready" =>
     /\ JoinedNormalized(cors.preflightHeaders, "Access-Control-Allow-Methods",
                          config.AllowedMethods)
     /\ JoinedNormalized(cors.preflightHeaders, "Access-Control-Allow-Headers",
                          config.AllowedHeaders)

Outcomes == { "notCors", "simple", "preflight", "forbidden" }

\* the route handler runs for requests without Origin and for non-OPTIONS
\* requests from an allowed origin
RouteHandlerRuns(c, r) ==
  \/ Len(r.Origin) = 0
  \/ (r.Method # "OPTIONS" /\ validateOrigin(c, r.Origin))

ExplicitList ==
  /\ phase = "ready"
  /\ ~config.AllowAllOrigins
  /\ config.AllowOriginFunc.nil
  /\ SliceLen(config.AllowedOrigins) > 0

ConfiguredOrigins ==
  { config.AllowedOrigins.elems[i] : i \in 1..SliceLen(config.AllowedOrigins) }

\* C28: under a valid configuration whose strategy is the origin list,
\* every origin written in the list is allowed by the matcher, and every
\* allowed origin is equal, character for character, to a written entry.
C28_ListMatchesAsWritten ==
  ExplicitList =>
     /\ \A entry \in ConfiguredOrigins : validateOrigin(cors, entry)
     /\ \A origin \in RequestOrigins \cup ConfiguredOrigins :
           validateOrigin(cors, origin) => origin \in ConfiguredOrigins

\* a 2xx status was set on the response of the current request
SuccessStatusSet ==
  \E i \in 1..Len(statusLog) : statusLog[i] \in 200..299

\* C29: while an OPTIONS request is handled, a success status is set only
\* once the preflight headers are on the response, that is after the
\* requested method and headers were validated, and no success status is
\* ever set on a refused preflight.
C29_NoSuccessBeforeValidation ==
  (phase = "ready" /\ pc # "idle" /\ req.Method = "OPTIONS") =>
     /\ SuccessStatusSet =>
           HeaderNames(cors.preflightHeaders) \subseteq HeaderNames(w.header)
     /\ outcome = "forbidden" => ~SuccessStatusSet

\* the normalised form of one entry
NormalForm(value) == CanonicalMIMEHeaderKey(TrimSpace(value))

\* the positions of a list whose normalised entry occurs at no earlier one
FirstSeen(elems) ==
  { i \in 1..Len(elems) :
      \A j \in 1..(i - 1) : NormalForm(elems[j]) # NormalForm(elems[i]) }

\* C30: normalize applied to its own result returns that result; the
\* result holds the normalised form of every entry once, at the place of
\* its first occurrence; nil gives nil, the empty list the empty list, and
\* an empty entry is kept.
C30_NormalizeIdempotent ==
  phase = "twice" =>
     LET values == config.values
         out == cors.once
         first == FirstSeen(values.elems)
     IN /\ cors.twice = out
        /\ out.nil = values.nil
        /\ Len(out.elems) = Cardinality(first)
        /\ \A k \in 1..Len(out.elems) :
              \E i \in first :
                 /\ Cardinality({ j \in first : j <= i }) = k
                 /\ out.elems[k] = NormalForm(values.elems[i])
        /\ \A k, l \in 1..Len(out.elems) : out.elems[k] = out.elems[l] => k = l
        /\ (\E i \in 1..Len(values.elems) : Len(TrimSpace(values.elems[i])) = 0)
              => \E k \in 1..Len(out.elems) : out.elems[k] = <<>>

C30_Witness ==
  /\ phase = "twice"
  /\ config.values = Slice(<< << "x", "-", "a", " " >>, << >>, << "X", "-", "A" >> >>)
  /\ cors.once = Slice(<< << "X", "-", "A" >>, << >> >>)
  /\ cors.twice = cors.once

====
